---- MODULE Spec2Model ----
(***************************************************************************)
(* mercury-mcp: the tool registry / entry point (src/src/main.py) and the  *)
(* Mercury API request wrapper with its five tools (src/src/tools.py).     *)
(***************************************************************************)
EXTENDS Integers, Sequences, FiniteSets, TLC

VARIABLES
    phase,      \* position of main.py's module-level code
    tools,      \* the name `tools` bound by `from .tools import tools`
    server,     \* the MCPServer object: its call shape and its _tools
    collected,  \* how many entries of tools the registration loop has passed
    startLog,   \* what start-up wrote to stderr or raised
    hres,       \* outcome of the handler call in progress
    envToken,   \* the process environment's MERCURY_API_TOKEN
    pc,         \* position of the tool invocation in progress
    inv,        \* the tool invoked and its arguments
    req,        \* arguments the tool passes to make_mercury_request
    wire,       \* HTTP requests issued by the invocation in progress
    resp,       \* upstream response received by the invocation
    outcome     \* what the invocation returned or raised

vars == <<phase, tools, server, collected, startLog, hres, envToken,
          pc, inv, req, wire, resp, outcome>>

startVars == <<phase, tools, server, collected, startLog>>
toolVars == <<pc, inv, req, wire, resp, outcome>>

(***************************************************************************)
(* TLC keeps the fields of a record in the order in which their names      *)
(* first occur in the module.  Every record below lists its fields in the  *)
(* order fixed here, so that a record is in that order from the start.     *)
(***************************************************************************)
FieldOrder ==
    [kind |-> 0, raised |-> 0, error |-> 0, value |-> 0, response |-> 0,
     dispatched |-> 0, dispatchRaised |-> 0, event |-> 0, forwarded |-> 0,
     isDict |-> 0, items |-> 0, text |-> 0,
     shape |-> 0, _tools |-> 0,
     tool |-> 0, args |-> 0,
     method |-> 0, endpoint |-> 0, url |-> 0, auth |-> 0, kwargs |-> 0,
     id |-> 0, name |-> 0, account_number |-> 0, routing_number |-> 0,
     available_balance |-> 0, current_balance |-> 0, currency |-> 0,
     account_id |-> 0, amount |-> 0, limit |-> 0, offset |-> 0,
     counterparty |-> 0, category |-> 0, description |-> 0, date |-> 0,
     counterparty_id |-> 0, counterparty_name |-> 0, memo |-> 0,
     external_id |-> 0, status |-> 0, requires_approval |-> 0,
     params |-> 0, json |-> 0, data |-> 0,
     accounts |-> 0, transactions |-> 0, count |-> 0,
     success |-> 0, entry |-> 0, message |-> 0,
     counterparties |-> 0, total |-> 0]

(***************************************************************************)
(* Python values.  Optional[T] is <<>> (None) or <<v>>; a dict is a        *)
(* function on its keys; text that the code inspects character by          *)
(* character is a sequence of one-character strings.                       *)
(***************************************************************************)
None == <<>>
Some(v) == <<v>>
EmptyDict == [k \in {} |-> 0]
\* {**f, **g} for dicts with no key in common, and with f's entry kept otherwise
Merge(f, g) ==
    [k \in (DOMAIN f) \cup (DOMAIN g) |-> IF k \in DOMAIN f THEN f[k] ELSE g[k]]
\* the dict {k: v}
Entry(k, v) == [x \in {k} |-> v]
DictGet(d, k, default) == IF k \in DOMAIN d THEN d[k] ELSE default

\* Python truthiness of an Optional[str]: None and "" are falsy.
Truthy(o) == o /= None /\ o[1] /= ""

UpperToLower ==
    "A" :> "a" @@ "B" :> "b" @@ "C" :> "c" @@ "D" :> "d" @@ "E" :> "e" @@ "F" :> "f"
    @@ "G" :> "g" @@ "H" :> "h" @@ "I" :> "i" @@ "J" :> "j" @@ "K" :> "k" @@ "L" :> "l"
    @@ "M" :> "m" @@ "N" :> "n" @@ "O" :> "o" @@ "P" :> "p" @@ "Q" :> "q" @@ "R" :> "r"
    @@ "S" :> "s" @@ "T" :> "t" @@ "U" :> "u" @@ "V" :> "v" @@ "W" :> "w" @@ "X" :> "x"
    @@ "Y" :> "y" @@ "Z" :> "z"

\* str.lower()
Lower(s) == [i \in 1..Len(s) |->
               IF s[i] \in DOMAIN UpperToLower THEN UpperToLower[s[i]] ELSE s[i]]

\* the `in` operator on two str
Contains(hay, needle) ==
    \E i \in 1..(Len(hay) - Len(needle) + 1) :
        SubSeq(hay, i, i + Len(needle) - 1) = needle

\* repr() of a str without quotes or backslashes
ReprStr(s) == <<"'">> \o s \o <<"'">>

RECURSIVE ReprItems(_)
ReprItems(items) ==
    IF items = <<>> THEN <<>>
    ELSE ReprStr(items[1][1]) \o <<":", " ">> \o ReprStr(items[1][2])
         \o (IF Len(items) > 1 THEN <<",", " ">> ELSE <<>>)
         \o ReprItems(Tail(items))

\* str() of a dict whose keys and values are str, given as its items in order
StrDict(items) == <<"{">> \o ReprItems(items) \o <<"}">>

\* dict.get(key) on the items of a dict; None when the key is absent
ItemsGet(items, key) ==
    IF \E i \in 1..Len(items) : items[i][1] = key
    THEN Some(items[CHOOSE i \in 1..Len(items) : items[i][1] = key][2])
    ELSE None

S_tools == <<"t", "o", "o", "l", "s">>
S_method == <<"m", "e", "t", "h", "o", "d">>
S_tools_list == <<"t", "o", "o", "l", "s", "/", "l", "i", "s", "t">>
S_tools_call == <<"t", "o", "o", "l", "s", "/", "c", "a", "l", "l">>
S_ping == <<"p", "i", "n", "g">>
S_initialize == <<"i", "n", "i", "t", "i", "a", "l", "i", "z", "e">>
S_id == <<"i", "d">>
S_TOOLS_upper == <<"M", "y", "-", "T", "O", "O", "L", "S">>
S_name == <<"n", "a", "m", "e">>
S_get_accounts == <<"g", "e", "t", "_", "a", "c", "c", "o", "u", "n", "t", "s">>

(***************************************************************************)
(* tools.py: the registry                                                  *)
(***************************************************************************)
ToolList == <<"get_accounts", "get_account", "get_transactions",
              "create_payment_entry_template", "get_counterparties">>

ToolSet == {ToolList[i] : i \in 1..Len(ToolList)}

(***************************************************************************)
(* main.py: module-level start-up.  The framework (dedalus_mcp) is not     *)
(* part of the repository: which of handle / __call__ its server object    *)
(* has, and whether collect() leaves a tool in server._tools, are choices  *)
(* of the framework and every outcome is kept.                             *)
(***************************************************************************)
ServerShapes == {"handle", "call", "plain"}

\* `from .tools import tools`, then `if not tools: raise RuntimeError`
ToolsImportFails(imported) == imported = <<>>

\* line 28: not hasattr(server, '_tools') or len(getattr(server, '_tools', [])) == 0
\* (a server without the attribute is one whose _tools is empty)
NoToolsRegistered(srv) == Len(srv._tools) = 0

\* lines 7-16: importing the tools module raises, or binds tools; an empty
\* list raises; every failure is re-raised as RuntimeError
ImportTools ==
    /\ phase = "Uninitialized"
    /\ tools = <<>>
    /\ startLog = "none"
    /\ \E importRaises \in BOOLEAN :
         LET imported == IF importRaises THEN <<>> ELSE ToolList IN
         IF importRaises \/ ToolsImportFails(imported)
         THEN /\ phase' = "Failed"
              /\ startLog' = "RuntimeError: Failed to import tools"
              /\ UNCHANGED <<tools, server, collected>>
         ELSE /\ tools' = imported
              /\ phase' = "Importing"
              /\ \E shape \in ServerShapes :
                   server' = [shape |-> shape, _tools |-> <<>>]
              /\ collected' = 0
              /\ UNCHANGED startLog
    /\ UNCHANGED <<hres, envToken, toolVars>>

\* what the framework's collect() does with a tool
CollectOutcomes == {"kept", "elsewhere", "raises"}

\* lines 24-25: server.collect(tool_func) for the next entry of tools; an
\* exception out of collect() ends the module's loading
Collect ==
    /\ phase = "Importing"
    /\ collected < Len(tools)
    /\ \E result \in CollectOutcomes :
         IF result = "raises"
         THEN /\ phase' = "Failed"
              /\ startLog' = "Exception: server.collect"
              /\ UNCHANGED <<server, collected>>
         ELSE /\ server' = [server EXCEPT !._tools =
                              IF result = "kept"
                              THEN Append(@, tools[collected + 1]) ELSE @]
              /\ collected' = collected + 1
              /\ UNCHANGED <<phase, startLog>>
    /\ UNCHANGED <<tools, hres, envToken, toolVars>>

\* lines 28-31: the registration check only writes to stderr; the module
\* then finishes loading and handler / main become available
VerifyRegistered ==
    /\ phase = "Importing"
    /\ collected = Len(tools)
    /\ startLog' = IF NoToolsRegistered(server)
                   THEN "WARNING: No tools registered on server"
                   ELSE "INFO: Registered tools on server"
    /\ phase' = "Ready"
    /\ UNCHANGED <<tools, server, collected, hres, envToken, toolVars>>

(***************************************************************************)
(* main.py: handler(event, context)                                        *)
(***************************************************************************)
\* an event that is a dict (its items in order), and one that is a str
DictEvent(items) == [isDict |-> TRUE, items |-> items, text |-> <<>>]
OtherEvent(text) == [isDict |-> FALSE, items |-> <<>>, text |-> text]

\* the events handler is called with
Events ==
    { DictEvent(<< <<S_method, S_tools_list>> >>),
      DictEvent(<< <<S_method, S_tools_call>>, <<S_name, S_get_accounts>> >>),
      DictEvent(<< <<S_method, S_ping>> >>),
      DictEvent(<< <<S_method, S_initialize>>, <<S_id, S_TOOLS_upper>> >>),
      DictEvent(<< <<S_id, S_ping>> >>),
      DictEvent(<<>>),
      OtherEvent(S_tools_list) }

\* what the framework's dispatch does with an event: returns, or raises
DispatchOutcomes == {"returns", "ConfigurationError", "UpstreamError", "RuntimeError"}

\* line 46: event.get("method") == "tools/list" or "tools" in str(event).lower()
IsDiscovery(event) ==
    \/ ItemsGet(event.items, S_method) = Some(S_tools_list)
    \/ Contains(Lower(StrDict(event.items)), S_tools)

\* lines 44-51: a dict event taken for a discovery request is answered here
AnsweredByHandler(event) == event.isDict /\ IsDiscovery(event)

\* lines 55-61: which call forwards the event
Dispatches(srv) == srv.shape \in {"handle", "call"}

\* lines 62-67: `except Exception` prints the error and returns the server
\* object; nothing is raised to the caller
HandlerOnError(err) == [kind |-> "server", raised |-> "none"]

HandlerResult(event, srv, dispatch) ==
    IF AnsweredByHandler(event)
    THEN [kind |-> "tools_list", raised |-> "none", dispatched |-> 0,
          dispatchRaised |-> "none", event |-> event, forwarded |-> <<>>]
    ELSE IF ~Dispatches(srv)
    THEN [kind |-> "server", raised |-> "none", dispatched |-> 0,
          dispatchRaised |-> "none", event |-> event, forwarded |-> <<>>]
    ELSE IF dispatch = "returns"
    THEN [kind |-> "dispatch_result", raised |-> "none", dispatched |-> 1,
          dispatchRaised |-> "none", event |-> event, forwarded |-> <<event>>]
    ELSE Merge(HandlerOnError(dispatch),
               [dispatched |-> 1, dispatchRaised |-> dispatch,
                event |-> event, forwarded |-> <<event>>])

Idle == [kind |-> "idle"]

\* handler(event, context), lines 36-67
Handler ==
    /\ phase = "Ready"
    /\ hres = Idle
    /\ pc = "idle"
    /\ \E event \in Events, dispatch \in DispatchOutcomes :
         hres' = IF tools = <<>>
                 THEN [kind |-> "raised", raised |-> "RuntimeError",
                       dispatched |-> 0, dispatchRaised |-> "none",
                       event |-> event, forwarded |-> <<>>]
                 ELSE HandlerResult(event, server, dispatch)
    /\ UNCHANGED <<startVars, envToken, toolVars>>

\* the handler's caller takes the result
HandlerReturn ==
    /\ hres /= Idle
    /\ hres' = Idle
    /\ UNCHANGED <<startVars, envToken, toolVars>>

(***************************************************************************)
(* tools.py: the request wrapper                                           *)
(***************************************************************************)
MERCURY_API_BASE_URL == "https://api.mercury.com/api/v1"

\* a non-empty default for the unset name
GetEnvTokenPlaceholder(env) == IF env = None THEN "changeme" ELSE env[1]

\* os.getenv("MERCURY_API_TOKEN", ""): the default stands in for an unset name
GetEnvToken(env) == IF env = None THEN "" ELSE env[1]

\* get_api_token, lines 25-33: `if not token: raise ValueError`
TokenMissing(token) == token = ""

\* line 39: f"{MERCURY_API_BASE_URL}/{endpoint}", kept as its "/"-joined parts
Url(endpoint) == <<MERCURY_API_BASE_URL>> \o endpoint

\* lines 41-46: requests.request(method=, url=, auth=(token, ""), **kwargs)
HttpRequest(r, token) ==
    [method |-> r.method, url |-> Url(r.endpoint),
     auth |-> <<token, "">>, kwargs |-> r.kwargs]

\* only the server-error class raises
RaiseForStatusServerOnly(status) == 500 <= status /\ status < 600

\* line 47, response.raise_for_status(): requests raises HTTPError for the
\* client-error and server-error classes and for nothing else
RaiseForStatus(status) == 400 <= status /\ status < 600

(***************************************************************************)
(* tools.py: the response models (pydantic: a missing required field is a  *)
(* ValidationError, an unknown field is ignored, a missing optional field  *)
(* takes its default)                                                      *)
(***************************************************************************)
Requires(d, keys) == keys \subseteq DOMAIN d

AccountValid(d) == Requires(d, {"id", "name"})

Account(d) ==
    [id |-> d["id"], name |-> d["name"],
     account_number |-> DictGet(d, "account_number", None),
     routing_number |-> DictGet(d, "routing_number", None),
     available_balance |-> DictGet(d, "available_balance", None),
     current_balance |-> DictGet(d, "current_balance", None),
     currency |-> DictGet(d, "currency", None)]

TransactionValid(d) == Requires(d, {"id", "account_id", "amount"})

Transaction(d) ==
    [id |-> d["id"], account_id |-> d["account_id"], amount |-> d["amount"],
     counterparty |-> DictGet(d, "counterparty", None),
     category |-> DictGet(d, "category", None),
     description |-> DictGet(d, "description", None),
     date |-> DictGet(d, "date", None),
     status |-> DictGet(d, "status", None)]

PaymentEntryValid(d) == Requires(d, {"account_id", "amount"})

PaymentEntryTemplate(d) ==
    [id |-> DictGet(d, "id", None),
     account_id |-> d["account_id"], amount |-> d["amount"],
     counterparty_id |-> DictGet(d, "counterparty_id", None),
     counterparty_name |-> DictGet(d, "counterparty_name", None),
     memo |-> DictGet(d, "memo", None),
     external_id |-> DictGet(d, "external_id", None),
     status |-> DictGet(d, "status", None),
     requires_approval |-> DictGet(d, "requires_approval", TRUE)]

Returned(v) == [kind |-> "returned", value |-> v]
Raised(e) == [kind |-> "raised", error |-> e]

\* AccountsResult(accounts=accounts, count=len(accounts)), lines 126-129
AccountsResult(accounts) == [accounts |-> accounts, count |-> Len(accounts)]

\* TransactionsResult(transactions=..., count=len(transactions)), lines 180-183
TransactionsResult(txs) == [transactions |-> txs, count |-> Len(txs)]

\* the count taken from the upstream body when it has one
GetAccountsResultUpstreamCount(data) ==
    LET raw == DictGet(data, "accounts", <<>>) IN
    IF \E i \in 1..Len(raw) : ~AccountValid(raw[i])
    THEN Raised("ValidationError")
    ELSE Returned([accounts |-> [i \in 1..Len(raw) |-> Account(raw[i])],
                   count |-> DictGet(data, "count", Len(raw))])

\* get_accounts after the request, lines 122-129
GetAccountsResult(data) ==
    LET raw == DictGet(data, "accounts", <<>>) IN
    IF \E i \in 1..Len(raw) : ~AccountValid(raw[i])
    THEN Raised("ValidationError")
    ELSE Returned(AccountsResult([i \in 1..Len(raw) |-> Account(raw[i])]))

\* get_account after the request, line 144
GetAccountResult(data) ==
    IF AccountValid(data) THEN Returned(Account(data))
    ELSE Raised("ValidationError")

\* get_transactions after the request, lines 176-183
GetTransactionsResult(data) ==
    LET raw == DictGet(data, "transactions", <<>>) IN
    IF \E i \in 1..Len(raw) : ~TransactionValid(raw[i])
    THEN Raised("ValidationError")
    ELSE Returned(TransactionsResult([i \in 1..Len(raw) |-> Transaction(raw[i])]))

\* create_payment_entry_template after the request, lines 231-237
CreatePaymentResult(data) ==
    IF PaymentEntryValid(data)
    THEN Returned([success |-> TRUE,
                   entry |-> PaymentEntryTemplate(data),
                   message |-> "Payment entry template created successfully and is pending admin approval"])
    ELSE Raised("ValidationError")

\* get_counterparties after the request, line 249
GetCounterpartiesResult(data) == Returned(data)

(***************************************************************************)
(* tools.py: what each tool hands to make_mercury_request                  *)
(***************************************************************************)
\* `if limit:` / `if offset:` in place of the `is not None` tests
TransactionsParamsTruthy(limit, offset) ==
    Merge(IF limit /= None /\ limit[1] /= 0 THEN Entry("limit", limit[1]) ELSE EmptyDict,
          IF offset /= None /\ offset[1] /= 0 THEN Entry("offset", offset[1]) ELSE EmptyDict)

\* get_transactions, lines 164-168
TransactionsParams(limit, offset) ==
    Merge(IF limit /= None THEN Entry("limit", limit[1]) ELSE EmptyDict,
          IF offset /= None THEN Entry("offset", offset[1]) ELSE EmptyDict)

\* two independent `if`s in place of `if` / `elif`
CounterpartyFieldsBoth(counterparty_id, counterparty_name) ==
    Merge(IF Truthy(counterparty_id)
          THEN Entry("counterparty_id", counterparty_id[1]) ELSE EmptyDict,
          IF Truthy(counterparty_name)
          THEN Entry("counterparty_name", counterparty_name[1]) ELSE EmptyDict)

\* create_payment_entry_template, lines 215-218
CounterpartyFields(counterparty_id, counterparty_name) ==
    IF Truthy(counterparty_id) THEN Entry("counterparty_id", counterparty_id[1])
    ELSE IF Truthy(counterparty_name) THEN Entry("counterparty_name", counterparty_name[1])
    ELSE EmptyDict

\* the payload without the approval flag
PayloadBaseNoApproval(account_id, amount) ==
    [account_id |-> account_id, amount |-> amount]

\* create_payment_entry_template, lines 209-213
PayloadBase(account_id, amount) ==
    [account_id |-> account_id, amount |-> amount, requires_approval |-> TRUE]

\* create_payment_entry_template, lines 209-223
PaymentPayload(account_id, amount, counterparty_id, counterparty_name, memo, external_id) ==
    Merge(Merge(PayloadBase(account_id, amount),
                CounterpartyFields(counterparty_id, counterparty_name)),
          Merge(IF Truthy(memo) THEN Entry("memo", memo[1]) ELSE EmptyDict,
                IF Truthy(external_id) THEN Entry("external_id", external_id[1])
                ELSE EmptyDict))

Request(method, endpoint, kwargs) ==
    [method |-> method, endpoint |-> endpoint, kwargs |-> kwargs]

(***************************************************************************)
(* Arguments the tools are called with and responses the upstream gives    *)
(***************************************************************************)
MaxItems == 2

AccountIds == {"acc1", "acc2"}
PayingAccountIds == {"acc1"}
Amounts == {0, 100}
OptStrings(v) == {None, Some(""), Some(v)}
OptInts == {None, Some(0), Some(10)}
CounterpartyIdArgs == OptStrings("cp1")
CounterpartyNameArgs == OptStrings("Bob")
MemoArgs == OptStrings("rent")
ExternalIdArgs == OptStrings("ext-9")

Statuses == {101, 200, 201, 302, 404, 503}

SeqsUpTo(S, n) == UNION {[1..k -> S] : k \in 0..n}

AccountDicts ==
    { [id |-> "acc1", name |-> "Checking"],
      [id |-> "acc2", name |-> "Savings", currency |-> "USD"],
      [name |-> "Nameless"] }

TransactionDicts ==
    { [id |-> "tx1", account_id |-> "acc1", amount |-> -25],
      [id |-> "tx2", account_id |-> "acc1", amount |-> 40, status |-> "sent"],
      [id |-> "tx3"] }

\* a JSON object with or without the list under `key` and with or without
\* a count of its own
ListData(key, dicts) ==
    LET lists == {EmptyDict} \cup {Entry(key, s) : s \in SeqsUpTo(dicts, MaxItems)}
        counts == {EmptyDict, Entry("count", 7)}
    IN {Merge(l, c) : l \in lists, c \in counts}

PaymentData ==
    LET base == {[id |-> "pe1", account_id |-> "acc1", amount |-> 100],
                 [account_id |-> "acc1", amount |-> 100, status |-> "pending"]}
        flags == {EmptyDict, Entry("requires_approval", TRUE),
                  Entry("requires_approval", FALSE)}
    IN {Merge(b, f) : b \in base, f \in flags} \cup {[id |-> "pe2"]}

CounterpartyData ==
    { [counterparties |-> <<>>],
      [counterparties |-> <<[id |-> "cp1", name |-> "Bob"]>>, total |-> 1] }

AccountsData == ListData("accounts", AccountDicts)
TransactionsData == ListData("transactions", TransactionDicts)

ResponseData(tool) ==
    CASE tool = "get_accounts" -> AccountsData
      [] tool = "get_account" -> AccountDicts
      [] tool = "get_transactions" -> TransactionsData
      [] tool = "create_payment_entry_template" -> PaymentData
      [] tool = "get_counterparties" -> CounterpartyData

\* a response: its status and its body, which is JSON text or is not
Responses(tool) ==
    {[status |-> s, json |-> TRUE, data |-> d] : s \in Statuses, d \in ResponseData(tool)}
    \cup {[status |-> s, json |-> FALSE, data |-> EmptyDict] : s \in Statuses}

\* nothing in progress
NoInvocation == [tool |-> "none"]
NoRequest == [method |-> "none"]
NoResponse == [status |-> 0]
NoOutcome == [kind |-> "none"]

(***************************************************************************)
(* tools.py: the five tools up to their call of make_mercury_request       *)
(***************************************************************************)
\* the call of make_mercury_request(method, endpoint, **kwargs) is reached
Call(tool, args, r) ==
    /\ inv' = [tool |-> tool, args |-> args]
    /\ req' = r
    /\ pc' = "token"
    /\ UNCHANGED <<startVars, hres, envToken, wire, resp, outcome>>

\* a tool is called on a started process, one call at a time
CanStart == phase = "Ready" /\ pc = "idle" /\ hres = Idle

\* get_accounts, line 120
GetAccounts ==
    /\ CanStart
    /\ Call("get_accounts", EmptyDict, Request("GET", <<"accounts">>, EmptyDict))

\* get_account, line 143
GetAccount ==
    /\ CanStart
    /\ \E account_id \in AccountIds :
         Call("get_account", [account_id |-> account_id],
              Request("GET", <<"accounts", account_id>>, EmptyDict))

\* get_transactions, lines 164-174
GetTransactions ==
    /\ CanStart
    /\ \E account_id \in AccountIds, limit \in OptInts, offset \in OptInts :
         Call("get_transactions",
              [account_id |-> account_id, limit |-> limit, offset |-> offset],
              Request("GET", <<"accounts", account_id, "transactions">>,
                      [params |-> TransactionsParams(limit, offset)]))

\* create_payment_entry_template, lines 209-229
CreatePaymentEntryTemplate ==
    /\ CanStart
    /\ \E account_id \in PayingAccountIds, amount \in Amounts,
          counterparty_id \in CounterpartyIdArgs,
          counterparty_name \in CounterpartyNameArgs,
          memo \in MemoArgs, external_id \in ExternalIdArgs :
         Call("create_payment_entry_template",
              [account_id |-> account_id, amount |-> amount,
               counterparty_id |-> counterparty_id,
               counterparty_name |-> counterparty_name,
               memo |-> memo, external_id |-> external_id],
              Request("POST", <<"transactions">>,
                      [json |-> PaymentPayload(account_id, amount, counterparty_id,
                                               counterparty_name, memo, external_id)]))

\* get_counterparties, line 248
GetCounterparties ==
    /\ CanStart
    /\ Call("get_counterparties", EmptyDict,
            Request("GET", <<"counterparties">>, EmptyDict))

(***************************************************************************)
(* tools.py: make_mercury_request, step by step, and the tool's return     *)
(***************************************************************************)
\* line 38: token = get_api_token()
ResolveToken ==
    /\ pc = "token"
    /\ LET token == GetEnvToken(envToken) IN
       IF TokenMissing(token)
       THEN /\ outcome' = Raised("ValueError")
            /\ pc' = "done"
       ELSE /\ pc' = "send"
            /\ UNCHANGED outcome
    /\ UNCHANGED <<startVars, hres, envToken, inv, req, wire, resp>>

\* lines 39-46: the HTTP request leaves
SendRequest ==
    /\ pc = "send"
    /\ wire' = Append(wire, HttpRequest(req, GetEnvToken(envToken)))
    /\ pc' = "await"
    /\ UNCHANGED <<startVars, hres, envToken, inv, req, resp, outcome>>

\* what the tool named does with the decoded body
ToolResult(tool, data) ==
    CASE tool = "get_accounts" -> GetAccountsResult(data)
      [] tool = "get_account" -> GetAccountResult(data)
      [] tool = "get_transactions" -> GetTransactionsResult(data)
      [] tool = "create_payment_entry_template" -> CreatePaymentResult(data)
      [] tool = "get_counterparties" -> GetCounterpartiesResult(data)

\* lines 47-48 and the rest of the tool: raise_for_status(), response.json(),
\* the response model
Completion(tool, r) ==
    IF RaiseForStatus(r.status)
    THEN Merge(Raised("HTTPError"), [response |-> r])
    ELSE IF ~r.json THEN Raised("JSONDecodeError")
    ELSE ToolResult(tool, r.data)

\* the response arrives and the tool runs to its end
Respond ==
    /\ pc = "await"
    /\ \E r \in Responses(inv.tool) :
         /\ resp' = r
         /\ outcome' = Completion(inv.tool, r)
    /\ pc' = "done"
    /\ UNCHANGED <<startVars, hres, envToken, inv, req, wire>>

\* the caller of the tool takes what it returned or raised
Return ==
    /\ pc = "done"
    /\ pc' = "idle"
    /\ inv' = NoInvocation
    /\ req' = NoRequest
    /\ wire' = <<>>
    /\ resp' = NoResponse
    /\ outcome' = NoOutcome
    /\ UNCHANGED <<startVars, hres, envToken>>

EnvTokens == {None, Some(""), Some("secret-token")}

Init ==
    /\ phase = "Uninitialized"
    /\ tools = <<>>
    /\ server = [shape |-> "plain", _tools |-> <<>>]
    /\ collected = 0
    /\ startLog = "none"
    /\ hres = Idle
    /\ envToken \in EnvTokens
    /\ pc = "idle"
    /\ inv = NoInvocation
    /\ req = NoRequest
    /\ wire = <<>>
    /\ resp = NoResponse
    /\ outcome = NoOutcome

Next ==
    \/ ImportTools
    \/ Collect
    \/ VerifyRegistered
    \/ Handler
    \/ HandlerReturn

Spec == Init /\ [][Next]_vars

\* The tools called on a started process.  No tool reads the server object,
\* so the invocations are explored from one Ready state of main.py.
ToolInit ==
    /\ phase = "Ready"
    /\ tools = ToolList
    /\ server = [shape |-> "handle", _tools |-> ToolList]
    /\ collected = Len(ToolList)
    /\ startLog = "INFO: Registered tools on server"
    /\ hres = Idle
    /\ envToken \in EnvTokens
    /\ pc = "idle"
    /\ inv = NoInvocation
    /\ req = NoRequest
    /\ wire = <<>>
    /\ resp = NoResponse
    /\ outcome = NoOutcome

ToolNext ==
    \/ GetAccounts
    \/ GetAccount
    \/ GetTransactions
    \/ CreatePaymentEntryTemplate
    \/ GetCounterparties
    \/ ResolveToken
    \/ SendRequest
    \/ Respond
    \/ Return

ToolSpec == ToolInit /\ [][ToolNext]_vars

(***************************************************************************)
(* Properties                                                              *)
(***************************************************************************)
IsCreate == inv.tool = "create_payment_entry_template"
Sent == Len(wire) >= 1
Done == pc = "done"
HasResponse == resp /= NoResponse

\* C1: every POST that create_payment_entry_template puts on the wire goes to
\* `transactions` and carries a JSON body whose requires_approval key is
\* present and true, whatever the arguments.
C1_BodyRequiresApproval ==
    IsCreate =>
        \A i \in 1..Len(wire) :
            /\ wire[i].method = "POST"
            /\ wire[i].url = <<MERCURY_API_BASE_URL, "transactions">>
            /\ "json" \in DOMAIN wire[i].kwargs
            /\ "requires_approval" \in DOMAIN wire[i].kwargs["json"]
            /\ wire[i].kwargs["json"]["requires_approval"] = TRUE

\* C1 witness: a payment request with a counterparty, a memo and an external
\* id is on the wire.
C1_Witness ==
    /\ IsCreate /\ pc = "await" /\ Len(wire) = 1
    /\ inv.args.counterparty_id = Some("cp1")
    /\ inv.args.memo = Some("rent")
    /\ inv.args.external_id = Some("ext-9")
    /\ inv.args.amount = 0

CredentialAbsent == envToken = None \/ envToken = Some("")

\* C2: with MERCURY_API_TOKEN unset or empty no invocation of any tool ever
\* issues an HTTP request, and every invocation ends by raising the
\* configuration error (ValueError) with nothing on the wire.
C2_NoRequestWithoutCredential ==
    CredentialAbsent =>
        /\ wire = <<>>
        /\ pc \notin {"send", "await"}
        /\ resp = NoResponse
        /\ Done => outcome = Raised("ValueError")

\* C2 witness: a tool invoked with the token unset has failed.
C2_Witness ==
    /\ envToken = None
    /\ Done
    /\ inv.tool = "get_counterparties"
    /\ outcome = Raised("ValueError")
    /\ wire = <<>>

NonSuccess(status) == ~(200 <= status /\ status < 300)
ErrorStatus(status) == 400 <= status /\ status < 600

FailsWithUpstreamError ==
    /\ outcome.kind = "raised"
    /\ outcome.error = "HTTPError"
    /\ outcome.response.status = resp.status
    /\ outcome.response.json = resp.json
    /\ outcome.response.data = resp.data
    /\ Len(wire) = 1

Given(o) == o /= None
GivenNonEmpty(o) == o /= None /\ o /= Some("")

CounterpartyKeys(body) == DOMAIN body \cap {"counterparty_id", "counterparty_name"}

\* the body carries exactly the keys in `keys`, each with the value supplied
CounterpartyIs(body, keys) ==
    /\ CounterpartyKeys(body) = keys
    /\ "counterparty_id" \in keys => body["counterparty_id"] = inv.args.counterparty_id[1]
    /\ "counterparty_name" \in keys => body["counterparty_name"] = inv.args.counterparty_name[1]

CounterpartyRule(supplied(_)) ==
    (IsCreate /\ Sent) =>
        LET body == wire[1].kwargs["json"]
            hasId == supplied(inv.args.counterparty_id)
            hasName == supplied(inv.args.counterparty_name)
        IN /\ (hasId /\ hasName) => CounterpartyIs(body, {"counterparty_id"})
           /\ (~hasId /\ hasName) => CounterpartyIs(body, {"counterparty_name"})
           /\ (~hasId /\ ~hasName) => CounterpartyIs(body, {})
           /\ Cardinality(CounterpartyKeys(body)) <= 1

\* C4 as stated, an argument being supplied whenever it is passed (is not
\* None): with both supplied only counterparty_id is in the body, with only
\* the name only counterparty_name, with neither neither, never both keys.
C4_SuppliedMeansPassed == CounterpartyRule(Given)

\* C4 amended, an argument being supplied when it is a non-empty string (an
\* empty string counts as not supplied): with both supplied only
\* counterparty_id is in the body, with only the name only counterparty_name,
\* with neither neither, each with the supplied value, never both keys.
C4_CounterpartyPrecedence == CounterpartyRule(GivenNonEmpty)

\* C4 witness: both an id and a name were supplied and the request is out.
C4_Witness ==
    /\ IsCreate /\ Sent
    /\ inv.args.counterparty_id = Some("cp1")
    /\ inv.args.counterparty_name = Some("Bob")

RegisteredSet == {server._tools[i] : i \in 1..Len(server._tools)}

\* C5 as stated: the process is Ready (handler and server usable) only with
\* the complete registry on the server; otherwise start-up has aborted.
C5_ReadyOnlyWithFullRegistry ==
    phase = "Ready" => (tools = ToolList /\ RegisteredSet = ToolSet)

\* C6 as stated: on a server that has a dispatch call, every event given to
\* handler is forwarded to it exactly once and the dispatch's result is what
\* handler returns; handler answers no event by itself.
C6_EveryEventDispatched ==
    (hres /= Idle /\ Dispatches(server)) =>
        /\ hres.dispatched = 1
        /\ hres.forwarded = <<hres.event>>
        /\ hres.kind /= "tools_list"

\* C7 as stated: when the dispatch raises, handler raises that error to its
\* caller and returns no value in its place.
C7_DispatchErrorReraised ==
    (hres /= Idle /\ hres.dispatchRaised /= "none") =>
        /\ hres.raised = hres.dispatchRaised
        /\ hres.kind = "raised"

IsTransactions == inv.tool = "get_transactions"

\* the query has `key` exactly when the argument was passed, with its value
ParamMatches(params, key, arg) ==
    /\ key \in DOMAIN params <=> arg /= None
    /\ key \in DOMAIN params => params[key] = arg[1]

\* C8: every request of get_transactions carries limit (offset) in its query
\* parameters exactly when the argument was provided, with the provided value
\* (0 included), and carries no other parameter.
C8_ParamsOnlyWhenProvided ==
    IsTransactions =>
        \A i \in 1..Len(wire) :
            LET params == wire[i].kwargs["params"] IN
            /\ ParamMatches(params, "limit", inv.args.limit)
            /\ ParamMatches(params, "offset", inv.args.offset)
            /\ DOMAIN params \subseteq {"limit", "offset"}

\* C8 witness: limit=0 with no offset is on the wire.
C8_Witness ==
    /\ IsTransactions /\ Sent
    /\ inv.args.limit = Some(0)
    /\ inv.args.offset = None

\* the list a list tool returned and the list the upstream sent
ReturnedList == IF inv.tool = "get_accounts" THEN outcome.value.accounts
                ELSE outcome.value.transactions
UpstreamList == DictGet(resp.data, IF inv.tool = "get_accounts" THEN "accounts"
                                   ELSE "transactions", <<>>)

ListReturned ==
    /\ Done
    /\ inv.tool \in {"get_accounts", "get_transactions"}
    /\ outcome.kind = "returned"

\* C9: a successful get_accounts / get_transactions returns count equal to
\* the length of the sequence it returns, whatever count the upstream body
\* has, and the sequence has the upstream's items in the upstream's order.
C9_CountIsLength ==
    ListReturned =>
        /\ outcome.value.count = Len(ReturnedList)
        /\ Len(ReturnedList) = Len(UpstreamList)
        /\ \A i \in 1..Len(UpstreamList) : ReturnedList[i].id = UpstreamList[i]["id"]

\* C9 witness: two accounts came back in the order acc2, acc1 under an
\* upstream count of 7.
C9_Witness ==
    /\ ListReturned
    /\ inv.tool = "get_accounts"
    /\ DictGet(resp.data, "count", 0) = 7
    /\ Len(ReturnedList) = 2
    /\ ReturnedList[1].id = "acc2"
    /\ ReturnedList[2].id = "acc1"

\* C10 as stated: every result create_payment_entry_template returns has
\* success = true and an entry whose requires_approval is true.
C10_ResultRequiresApproval ==
    (Done /\ IsCreate /\ outcome.kind = "returned") =>
        /\ outcome.value.success = TRUE
        /\ outcome.value.entry.requires_approval = TRUE
====
